---- MODULE Spec2Model ----
(***************************************************************************)
(* Balance consolidation of the SAF-T export: main.py validates the        *)
(* selected dates, CertiniaTransformer resolves the period window,         *)
(* accumulates opening and closing debit/credit sums per general-ledger    *)
(* account and per c2g__Account__c in one pass over the transaction lines, *)
(* and converts the raw sums to net-position balance records.              *)
(* _transform_master_files then attaches the balances to the GL accounts,  *)
(* the customers and the suppliers.                                        *)
(* The older per-field pass _calculate_balances, the serialization of the  *)
(* balances and of the journal entry lines by SAFTGenerator, and the       *)
(* polling loop of query_bulk are modelled beside it.                      *)
(*                                                                         *)
(* Strings are sequences of character codes (the digits 0..9 and Slash),   *)
(* Python dicts are functions with a finite domain, and Python floats are  *)
(* binary floating-point numbers with Prec significand bits, rounded to    *)
(* nearest, ties to even (IEEE-754 double has 53 bits; amounts are counted *)
(* in units of the smallest amount of the model).                          *)
(***************************************************************************)
EXTENDS Integers, Sequences, FiniteSets, TLC

VARIABLES
    selections,          \* the request of the UI: year, period_from, period_to
    data,                \* the extracted master data: gl_accounts, accounts
    config,              \* config['saft']: selection_start_date, selection_end_date
    transaction_lines,   \* the ledger lines handed to _calculate_all_balances
    period_info_cache,   \* self._period_info_cache: <<>> is None, <<info>> is a cached value
    pc,                  \* position of the run
    start_period_number, \* local of _calculate_all_balances
    end_period_number,   \* local of _calculate_all_balances
    i,                   \* number of lines the loop has visited
    sums,                \* the accumulators, counters and per-line locals of the loop
    gl_balances,         \* first component of the returned tuple
    account_balances,    \* second component of the returned tuple
    master_files,        \* the result of _transform_master_files
    general_ledger_entries, \* the result of _transform_gl_entries
    xml,                 \* the elements SAFTGenerator has written, by parent element
    bulk                 \* the locals of query_bulk: wait_time, poll_interval, state, all_records

vars == <<selections, data, config, transaction_lines, period_info_cache, pc,
          start_period_number, end_period_number, i, sums, gl_balances,
          account_balances, master_files, general_ledger_entries, xml, bulk>>

---------------------------------------------------------------------------
(* Bounds of the model *)

MaxLines == 3
Prec == 3
MaxRaw == 2
MaxFieldLines == 2
MaxAccounts == 2

---------------------------------------------------------------------------
(* Python values *)

None == "None"
Slash == 10
EmptyDict == [k \in {} |-> 0]

Get(d, k, default) == IF k \in DOMAIN d THEN d[k] ELSE default
(* the assignment replacing the dict by one that holds only the new key *)
Put_OthersDropped(d, k, v) == [x \in {k} |-> v]
Put(d, k, v) == [x \in (DOMAIN d) \cup {k} |-> IF x = k THEN v ELSE d[x]]
Truthy(id) == id # None /\ id # ""

Abs(x) == IF x < 0 THEN -x ELSE x

(* float arithmetic: the result of an exact operation rounded to Prec bits *)
RECURSIVE Ulp(_, _)
Ulp(m, q) == IF m < (2 ^ Prec) * q THEN q ELSE Ulp(m, 2 * q)

(* float('inf'): every magnitude from Infinity on is the infinite float, *)
(* which absorbs the addition of any finite amount                       *)
Infinity == 2 ^ (Prec + 10)

RoundFloat(x) ==
    LET m  == Abs(x)
        q  == Ulp(m, 1)
        lo == (m \div q) * q
        r  == m - lo
        up == IF 2 * r > q THEN TRUE
              ELSE IF 2 * r < q THEN FALSE
              ELSE (lo \div q) % 2 = 1
        mag == IF m >= Infinity THEN Infinity ELSE IF up THEN lo + q ELSE lo
    IN  IF x < 0 THEN -mag ELSE mag

FloatAdd(a, b) == RoundFloat(a + b)
FloatSub(a, b) == RoundFloat(a - b)

(* str < str and str <= str of Python: lexicographic on character codes *)
RECURSIVE StrLess(_, _)
StrLess(a, b) ==
    IF a = <<>> THEN b # <<>>
    ELSE IF b = <<>> THEN FALSE
    ELSE IF Head(a) = Head(b) THEN StrLess(Tail(a), Tail(b))
    ELSE Head(a) < Head(b)

StrLessEq(a, b) == a = b \/ StrLess(a, b)

(* f"{n}" and f"{n:03d}" *)
RECURSIVE Digits(_)
Digits(n) == IF n < 10 THEN <<n>> ELSE Digits(n \div 10) \o <<n % 10>>

Pad3(n) ==
    LET d == Digits(n)
    IN  IF Len(d) >= 3 THEN d ELSE [k \in 1..(3 - Len(d)) |-> 0] \o d

---------------------------------------------------------------------------
(* main.py: validate_dates *)

DateLess(a, b) ==
    \/ a.year < b.year
    \/ a.year = b.year /\ a.month < b.month
    \/ a.year = b.year /\ a.month = b.month /\ a.day < b.day

(* the comparison of the two dates left out *)
DatesValid_Unchecked(start, end) == TRUE
DatesValid(start, end) == ~DateLess(end, start)

---------------------------------------------------------------------------
(* CertiniaTransformer helpers *)

PeriodInfo(cfg) ==
    [period            |-> cfg.selection_end_date.month,
     period_year       |-> cfg.selection_end_date.year,
     start_period      |-> cfg.selection_start_date.month,
     start_period_year |-> cfg.selection_start_date.year]

(* the window computed from the configuration at every call *)
GetPeriodInfo_Uncached(cache, cfg) == PeriodInfo(cfg)
GetPeriodInfo(cache, cfg) == IF cache # <<>> THEN cache[1] ELSE PeriodInfo(cfg)

StartPeriodNumber(info) == Digits(info.start_period_year) \o Pad3(info.start_period)
EndPeriodNumber(info) == Digits(info.period_year) \o Pad3(info.period)

SlashCount(s) == Cardinality({k \in 1..Len(s) : s[k] = Slash})
FirstSlash(s) == CHOOSE k \in 1..Len(s) : s[k] = Slash /\ \A j \in 1..(k - 1) : s[j] # Slash

(* the guard on the period name dropped: an empty name is unpacked too *)
GetPeriodNumber_NoGuard(line) ==
    IF line.nested /\ SlashCount(line.name) = 1
    THEN LET k == FirstSlash(line.name)
         IN  [raised |-> FALSE,
              key |-> SubSeq(line.name, 1, k - 1) \o SubSeq(line.name, k + 1, Len(line.name))]
    ELSE IF line.nested THEN [raised |-> TRUE, key |-> <<>>]
    ELSE [raised |-> FALSE, key |-> <<>>]

(* _get_period_number: [raised, key]; raised is the ValueError of the unpacking *)
GetPeriodNumber(line) ==
    IF line.nested /\ line.name # <<>> /\ SlashCount(line.name) > 0
    THEN IF SlashCount(line.name) = 1
         THEN LET k == FirstSlash(line.name)
              IN  [raised |-> FALSE,
                   key |-> SubSeq(line.name, 1, k - 1) \o SubSeq(line.name, k + 1, Len(line.name))]
         ELSE [raised |-> TRUE, key |-> <<>>]
    ELSE [raised |-> FALSE, key |-> <<>>]

(* _parse_decimal: a field is [t, v] with t one of none, empty, num (a    *)
(* number or its text), inf (the text 'inf', which float() accepts) and  *)
(* text (text float() rejects)                                           *)
ParseDecimal(value) ==
    IF value.t = "none" \/ value.t = "empty" THEN 0
    ELSE IF value.t = "num" THEN RoundFloat(value.v)
    ELSE IF value.t = "inf" THEN Infinity
    ELSE 0

(* the debit and credit fields preferred to c2g__HomeValue__c *)
GetNetValue_DebitCreditFirst(line) ==
    IF line.debits.t = "num" \/ line.credits.t = "num"
    THEN FloatSub(ParseDecimal(line.debits), ParseDecimal(line.credits))
    ELSE ParseDecimal(line.home_value)

GetNetValue(line) ==
    IF line.home_value.t # "none" /\ line.home_value.t # "empty"
    THEN ParseDecimal(line.home_value)
    ELSE FloatSub(ParseDecimal(line.debits), ParseDecimal(line.credits))

(* the opening comparison made inclusive *)
IsOpening_Inclusive(period_number, start) == StrLessEq(period_number, start)
IsOpening(period_number, start) == StrLess(period_number, start)

(* the closing comparison made strict *)
IsClosing_Strict(period_number, end) == StrLess(period_number, end)
IsClosing(period_number, end) == StrLessEq(period_number, end)

(* the two sides exchanged *)
AddSigned_SidesSwapped(pair, id, net_value) ==
    IF net_value > 0
    THEN [debits  |-> pair.debits,
          credits |-> Put(pair.credits, id, FloatAdd(Get(pair.credits, id, 0), net_value))]
    ELSE IF net_value < 0
    THEN [debits  |-> Put(pair.debits, id, FloatAdd(Get(pair.debits, id, 0), Abs(net_value))),
          credits |-> pair.credits]
    ELSE pair

(* if net_value > 0: debits[id] += net_value; elif net_value < 0: credits[id] += abs(net_value) *)
AddSigned(pair, id, net_value) ==
    IF net_value > 0
    THEN [debits  |-> Put(pair.debits, id, FloatAdd(Get(pair.debits, id, 0), net_value)),
          credits |-> pair.credits]
    ELSE IF net_value < 0
    THEN [debits  |-> pair.debits,
          credits |-> Put(pair.credits, id, FloatAdd(Get(pair.credits, id, 0), Abs(net_value)))]
    ELSE pair

InitSums ==
    [gl_opening_debits  |-> EmptyDict, gl_opening_credits  |-> EmptyDict,
     gl_closing_debits  |-> EmptyDict, gl_closing_credits  |-> EmptyDict,
     acc_opening_debits |-> EmptyDict, acc_opening_credits |-> EmptyDict,
     acc_closing_debits |-> EmptyDict, acc_closing_credits |-> EmptyDict,
     skipped_no_gl_account |-> 0, skipped_no_account |-> 0, skipped_no_period |-> 0,
     processed_opening |-> 0, processed_closing |-> 0,
     net_value |-> 0, period_number |-> <<>>,
     is_opening |-> FALSE, is_closing |-> FALSE, raised |-> FALSE]

(* a line without a GL account id skipped before the partner dimension *)
ProcessLine_GlRequired(s, line, start, end) ==
    LET gl_account_id == line.gl
        account_id    == line.acc
        s1 == [s EXCEPT
                 !.skipped_no_gl_account = IF Truthy(gl_account_id) THEN @ ELSE @ + 1,
                 !.skipped_no_account    = IF Truthy(account_id) THEN @ ELSE @ + 1]
        net_value == GetNetValue(line)
        pn        == GetPeriodNumber(line)
        opening   == IsOpening(pn.key, start)
        closing   == IsClosing(pn.key, end)
        glo == IF Truthy(gl_account_id) /\ opening
               THEN AddSigned([debits |-> s.gl_opening_debits, credits |-> s.gl_opening_credits],
                              gl_account_id, net_value)
               ELSE [debits |-> s.gl_opening_debits, credits |-> s.gl_opening_credits]
        glc == IF Truthy(gl_account_id) /\ closing
               THEN AddSigned([debits |-> s.gl_closing_debits, credits |-> s.gl_closing_credits],
                              gl_account_id, net_value)
               ELSE [debits |-> s.gl_closing_debits, credits |-> s.gl_closing_credits]
        aco == IF Truthy(account_id) /\ opening
               THEN AddSigned([debits |-> s.acc_opening_debits, credits |-> s.acc_opening_credits],
                              account_id, net_value)
               ELSE [debits |-> s.acc_opening_debits, credits |-> s.acc_opening_credits]
        acc == IF Truthy(account_id) /\ closing
               THEN AddSigned([debits |-> s.acc_closing_debits, credits |-> s.acc_closing_credits],
                              account_id, net_value)
               ELSE [debits |-> s.acc_closing_debits, credits |-> s.acc_closing_credits]
    IN  IF ~Truthy(gl_account_id) THEN s1
        ELSE IF pn.raised
        THEN [s1 EXCEPT !.net_value = net_value, !.raised = TRUE]
        ELSE IF pn.key = <<>>
        THEN [s1 EXCEPT !.net_value = net_value, !.period_number = pn.key,
                        !.skipped_no_period = @ + 1]
        ELSE [s1 EXCEPT
                !.net_value = net_value, !.period_number = pn.key,
                !.is_opening = opening, !.is_closing = closing,
                !.gl_opening_debits = glo.debits, !.gl_opening_credits = glo.credits,
                !.gl_closing_debits = glc.debits, !.gl_closing_credits = glc.credits,
                !.acc_opening_debits = aco.debits, !.acc_opening_credits = aco.credits,
                !.acc_closing_debits = acc.debits, !.acc_closing_credits = acc.credits,
                !.processed_opening = IF Truthy(account_id) /\ opening THEN @ + 1 ELSE @,
                !.processed_closing = IF Truthy(account_id) /\ closing THEN @ + 1 ELSE @]

(* the body of the loop of _calculate_all_balances, for one line *)
ProcessLine(s, line, start, end) ==
    LET gl_account_id == line.gl
        account_id    == line.acc
        s1 == [s EXCEPT
                 !.skipped_no_gl_account = IF Truthy(gl_account_id) THEN @ ELSE @ + 1,
                 !.skipped_no_account    = IF Truthy(account_id) THEN @ ELSE @ + 1]
        net_value == GetNetValue(line)
        pn        == GetPeriodNumber(line)
        opening   == IsOpening(pn.key, start)
        closing   == IsClosing(pn.key, end)
        glo == IF Truthy(gl_account_id) /\ opening
               THEN AddSigned([debits |-> s.gl_opening_debits, credits |-> s.gl_opening_credits],
                              gl_account_id, net_value)
               ELSE [debits |-> s.gl_opening_debits, credits |-> s.gl_opening_credits]
        glc == IF Truthy(gl_account_id) /\ closing
               THEN AddSigned([debits |-> s.gl_closing_debits, credits |-> s.gl_closing_credits],
                              gl_account_id, net_value)
               ELSE [debits |-> s.gl_closing_debits, credits |-> s.gl_closing_credits]
        aco == IF Truthy(account_id) /\ opening
               THEN AddSigned([debits |-> s.acc_opening_debits, credits |-> s.acc_opening_credits],
                              account_id, net_value)
               ELSE [debits |-> s.acc_opening_debits, credits |-> s.acc_opening_credits]
        acc == IF Truthy(account_id) /\ closing
               THEN AddSigned([debits |-> s.acc_closing_debits, credits |-> s.acc_closing_credits],
                              account_id, net_value)
               ELSE [debits |-> s.acc_closing_debits, credits |-> s.acc_closing_credits]
    IN  IF pn.raised
        THEN [s1 EXCEPT !.net_value = net_value, !.raised = TRUE]
        ELSE IF pn.key = <<>>
        THEN [s1 EXCEPT !.net_value = net_value, !.period_number = pn.key,
                        !.skipped_no_period = @ + 1]
        ELSE [s1 EXCEPT
                !.net_value = net_value, !.period_number = pn.key,
                !.is_opening = opening, !.is_closing = closing,
                !.gl_opening_debits = glo.debits, !.gl_opening_credits = glo.credits,
                !.gl_closing_debits = glc.debits, !.gl_closing_credits = glc.credits,
                !.acc_opening_debits = aco.debits, !.acc_opening_credits = aco.credits,
                !.acc_closing_debits = acc.debits, !.acc_closing_credits = acc.credits,
                !.processed_opening = IF Truthy(account_id) /\ opening THEN @ + 1 ELSE @,
                !.processed_closing = IF Truthy(account_id) /\ closing THEN @ + 1 ELSE @]

(* the debit branch without abs() around the opening net *)
NetPosition_NoAbs(opening_debit, opening_credit, closing_debit, closing_credit) ==
    LET opening_net == FloatSub(opening_debit, opening_credit)
        closing_net == FloatSub(closing_debit, closing_credit)
    IN  IF closing_net > 0
        THEN [opening_debit_balance |-> opening_net, opening_credit_balance |-> 0,
              closing_debit_balance |-> closing_net, closing_credit_balance |-> 0]
        ELSE IF closing_net < 0
        THEN [opening_debit_balance |-> 0, opening_credit_balance |-> Abs(opening_net),
              closing_debit_balance |-> 0, closing_credit_balance |-> Abs(closing_net)]
        ELSE IF opening_net > 0
        THEN [opening_debit_balance |-> opening_net, opening_credit_balance |-> 0,
              closing_debit_balance |-> 0, closing_credit_balance |-> 0]
        ELSE [opening_debit_balance |-> 0, opening_credit_balance |-> Abs(opening_net),
              closing_debit_balance |-> 0, closing_credit_balance |-> 0]

(* opening and closing each presented by its own sign *)
NetPosition_IndependentSign(opening_debit, opening_credit, closing_debit, closing_credit) ==
    LET opening_net == FloatSub(opening_debit, opening_credit)
        closing_net == FloatSub(closing_debit, closing_credit)
    IN  [opening_debit_balance  |-> IF opening_net > 0 THEN opening_net ELSE 0,
         opening_credit_balance |-> IF opening_net < 0 THEN Abs(opening_net) ELSE 0,
         closing_debit_balance  |-> IF closing_net > 0 THEN closing_net ELSE 0,
         closing_credit_balance |-> IF closing_net < 0 THEN Abs(closing_net) ELSE 0]

(* the balance record of one account in _convert_debit_credit_to_net_position *)
NetPosition(opening_debit, opening_credit, closing_debit, closing_credit) ==
    LET opening_net == FloatSub(opening_debit, opening_credit)
        closing_net == FloatSub(closing_debit, closing_credit)
    IN  IF closing_net > 0
        THEN [opening_debit_balance |-> Abs(opening_net), opening_credit_balance |-> 0,
              closing_debit_balance |-> closing_net, closing_credit_balance |-> 0]
        ELSE IF closing_net < 0
        THEN [opening_debit_balance |-> 0, opening_credit_balance |-> Abs(opening_net),
              closing_debit_balance |-> 0, closing_credit_balance |-> Abs(closing_net)]
        ELSE IF opening_net > 0
        THEN [opening_debit_balance |-> opening_net, opening_credit_balance |-> 0,
              closing_debit_balance |-> 0, closing_credit_balance |-> 0]
        ELSE IF opening_net < 0
        THEN [opening_debit_balance |-> 0, opening_credit_balance |-> Abs(opening_net),
              closing_debit_balance |-> 0, closing_credit_balance |-> 0]
        ELSE [opening_debit_balance |-> 0, opening_credit_balance |-> 0,
              closing_debit_balance |-> 0, closing_credit_balance |-> 0]

ConvertDebitCreditToNetPosition(opening_debits, opening_credits, closing_debits, closing_credits) ==
    LET all_account_ids == (DOMAIN opening_debits) \cup (DOMAIN opening_credits)
                           \cup (DOMAIN closing_debits) \cup (DOMAIN closing_credits)
    IN  [account_id \in all_account_ids |->
            NetPosition(Get(opening_debits, account_id, 0), Get(opening_credits, account_id, 0),
                        Get(closing_debits, account_id, 0), Get(closing_credits, account_id, 0))]

GlBalancesOf(s) ==
    ConvertDebitCreditToNetPosition(s.gl_opening_debits, s.gl_opening_credits,
                                    s.gl_closing_debits, s.gl_closing_credits)

AccountBalancesOf(s) ==
    ConvertDebitCreditToNetPosition(s.acc_opening_debits, s.acc_opening_credits,
                                    s.acc_closing_debits, s.acc_closing_credits)

(* the whole of _calculate_all_balances as a function of its inputs *)
RECURSIVE ProcessLines(_, _, _, _)
ProcessLines(s, lines, start, end) ==
    IF lines = <<>> \/ s.raised THEN s
    ELSE ProcessLines(ProcessLine(s, Head(lines), start, end), Tail(lines), start, end)

CalculateAllBalances(lines, start, end) ==
    IF lines = <<>>
    THEN [raised |-> FALSE, gl |-> EmptyDict, acc |-> EmptyDict]
    ELSE LET s == ProcessLines(InitSums, lines, start, end)
         IN  IF s.raised
             THEN [raised |-> TRUE, gl |-> EmptyDict, acc |-> EmptyDict]
             ELSE [raised |-> FALSE, gl |-> GlBalancesOf(s), acc |-> AccountBalancesOf(s)]

(* _calculate_balances: the pass over the lines for one grouping field *)
LineGet(line, field) ==
    IF field = "c2g__GeneralLedgerAccount__c" THEN line.gl
    ELSE IF field = "c2g__Account__c" THEN line.acc
    ELSE None

InitFieldSums ==
    [opening_debits |-> EmptyDict, opening_credits |-> EmptyDict,
     closing_debits |-> EmptyDict, closing_credits |-> EmptyDict,
     skipped_no_account |-> 0, skipped_no_period |-> 0,
     processed_opening |-> 0, processed_closing |-> 0, raised |-> FALSE]

(* the body of the loop of _calculate_balances, for one line *)
ProcessFieldLine(s, line, group_by_field, start, end) ==
    LET account_id == LineGet(line, group_by_field)
        net_value  == GetNetValue(line)
        pn         == GetPeriodNumber(line)
        opening    == StrLess(pn.key, start)
        closing    == StrLessEq(pn.key, end)
        o == IF opening
             THEN AddSigned([debits |-> s.opening_debits, credits |-> s.opening_credits],
                            account_id, net_value)
             ELSE [debits |-> s.opening_debits, credits |-> s.opening_credits]
        c == IF closing
             THEN AddSigned([debits |-> s.closing_debits, credits |-> s.closing_credits],
                            account_id, net_value)
             ELSE [debits |-> s.closing_debits, credits |-> s.closing_credits]
    IN  IF ~Truthy(account_id)
        THEN [s EXCEPT !.skipped_no_account = @ + 1]
        ELSE IF pn.raised
        THEN [s EXCEPT !.raised = TRUE]
        ELSE IF pn.key = <<>>
        THEN [s EXCEPT !.skipped_no_period = @ + 1]
        ELSE [s EXCEPT
                !.opening_debits = o.debits, !.opening_credits = o.credits,
                !.closing_debits = c.debits, !.closing_credits = c.credits,
                !.processed_opening = IF opening THEN @ + 1 ELSE @,
                !.processed_closing = IF closing THEN @ + 1 ELSE @]

RECURSIVE ProcessFieldLines(_, _, _, _, _)
ProcessFieldLines(s, lines, group_by_field, start, end) ==
    IF lines = <<>> \/ s.raised THEN s
    ELSE ProcessFieldLines(ProcessFieldLine(s, Head(lines), group_by_field, start, end),
                           Tail(lines), group_by_field, start, end)

CalculateBalances(lines, group_by_field, start, end) ==
    IF lines = <<>>
    THEN [raised |-> FALSE, balances |-> EmptyDict]
    ELSE LET s == ProcessFieldLines(InitFieldSums, lines, group_by_field, start, end)
         IN  IF s.raised
             THEN [raised |-> TRUE, balances |-> EmptyDict]
             ELSE [raised |-> FALSE,
                   balances |-> ConvertDebitCreditToNetPosition(
                                    s.opening_debits, s.opening_credits,
                                    s.closing_debits, s.closing_credits)]

(* str(account.get('Id', '')) *)
Str(v) == IF v = None THEN "None" ELSE v

default_balances ==
    [opening_debit_balance |-> 0, closing_debit_balance |-> 0,
     opening_credit_balance |-> 0, closing_credit_balance |-> 0]

(* list.sort(key=lambda x: x['account_id']): stable, ascending by str *)
InsertByAccountId(sorted, rec) ==
    LET n == Cardinality({k \in 1..Len(sorted) : StrLessEq(sorted[k].account_id, rec.account_id)})
    IN  SubSeq(sorted, 1, n) \o <<rec>> \o SubSeq(sorted, n + 1, Len(sorted))

RECURSIVE SortByAccountId(_)
SortByAccountId(records) ==
    IF records = <<>> THEN <<>>
    ELSE InsertByAccountId(SortByAccountId(SubSeq(records, 1, Len(records) - 1)),
                           records[Len(records)])

(* one element of the list comprehension of _transform_gl_accounts *)
GlAccountRecord(account, balances) ==
    [account_id |-> account.c2g__ReportingCode__c]
        @@ Get(balances, Str(account.Id), default_balances)

TransformGlAccounts(gl_accounts, balances) ==
    SortByAccountId([k \in 1..Len(gl_accounts) |-> GlAccountRecord(gl_accounts[k], balances)])

(* an account without an entry in the balance map skipped *)
PartnerRecords_SkipWithoutBalance(accounts, balances, record_type) ==
    LET F[k \in 0..Len(accounts)] ==
            IF k = 0 THEN <<>>
            ELSE LET acc == accounts[k]
                 IN  IF acc.record_type # record_type THEN F[k - 1]
                     ELSE IF ~Truthy(acc.Id) THEN F[k - 1]
                     ELSE IF acc.Id \notin DOMAIN balances THEN F[k - 1]
                     ELSE Append(F[k - 1], [partner_id |-> acc.Id] @@ balances[acc.Id])
    IN  F[Len(accounts)]

(* the loop shared by _transform_customers and _transform_suppliers *)
PartnerRecords(accounts, balances, record_type) ==
    LET F[k \in 0..Len(accounts)] ==
            IF k = 0 THEN <<>>
            ELSE LET acc == accounts[k]
                 IN  IF acc.record_type # record_type THEN F[k - 1]
                     ELSE IF ~Truthy(acc.Id) THEN F[k - 1]
                     ELSE Append(F[k - 1],
                                 [partner_id |-> acc.Id] @@ Get(balances, acc.Id, default_balances))
    IN  F[Len(accounts)]

TransformCustomers(accounts, balances) == PartnerRecords(accounts, balances, "Standard")
TransformSuppliers(accounts, balances) ==
    PartnerRecords(accounts, balances, "Supplier Data Management")

---------------------------------------------------------------------------
(* SAFTGenerator: an element is [name, text]; an amount is a number of     *)
(* hundredths, which f"{amount:.2f}" writes as its decimal text            *)

Dot == 11
Minus == 12
InfChars == <<13, 14, 15>>

Format2f(amount) ==
    LET m    == Abs(amount)
        sign == IF amount < 0 THEN <<Minus>> ELSE <<>>
    IN  IF m >= Infinity THEN sign \o InfChars
        ELSE sign \o Digits(m \div 100) \o <<Dot, (m % 100) \div 10, m % 10>>

Elem(name, text) == [name |-> name, text |-> text]

(* _add_balance: the elements added to the parent *)
AddBalance(opening_debit, opening_credit, closing_debit, closing_credit) ==
    IF closing_credit > 0
    THEN <<Elem("OpeningCreditBalance", Format2f(opening_credit)),
           Elem("ClosingCreditBalance", Format2f(closing_credit))>>
    ELSE <<Elem("OpeningDebitBalance", Format2f(opening_debit)),
           Elem("ClosingDebitBalance", Format2f(closing_debit))>>

(* _add_currency_amount: the element with its Amount *)
AddCurrencyAmount(element_name, amount) == Elem(element_name, Format2f(amount))

(* _add_journal_entry: the amount elements added to the TransactionLine *)
JournalLineAmount(line) ==
    IF line.debit_amount > 0 \/ (line.debit_amount = 0 /\ line.credit_amount = 0)
    THEN <<AddCurrencyAmount("DebitAmount", line.debit_amount)>>
    ELSE IF line.credit_amount > 0
    THEN <<AddCurrencyAmount("CreditAmount", line.credit_amount)>>
    ELSE <<>>

(* _transform_gl_entries: the lines of one journal *)
TransformJournalLines(journal_lines) ==
    [line_number \in 1..Len(journal_lines) |->
        [record_id     |-> line_number,
         debit_amount  |-> ParseDecimal(journal_lines[line_number].c2g__Debits__c),
         credit_amount |-> ParseDecimal(journal_lines[line_number].c2g__Credits__c)]]

(* query_bulk before the polling loop *)
max_wait == 600

InitBulk ==
    [wait_time |-> 0, poll_interval |-> 2, state |-> None, raised |-> None, all_records |-> None]

(* the poll interval after a poll that leaves the job unfinished *)
NextPollInterval(wait_time, poll_interval) ==
    IF wait_time > 30 /\ poll_interval < 5 THEN 5
    ELSE IF wait_time > 120 /\ poll_interval < 10 THEN 10
    ELSE poll_interval

---------------------------------------------------------------------------
(* Inputs *)

Date(y, m, d) == [year |-> y, month |-> m, day |-> d]
Num(v) == [t |-> "num", v |-> v]
Absent == [t |-> "none", v |-> 0]

Empty == [t |-> "empty", v |-> 0]
Text == [t |-> "text", v |-> 0]
InfText == [t |-> "inf", v |-> 0]

TransactionLine(gl, acc, home_value, debits, credits, nested, name) ==
    [gl |-> gl, acc |-> acc, home_value |-> home_value, debits |-> debits,
     credits |-> credits, nested |-> nested, name |-> name]

Line(gl, acc, value, name) ==
    [gl |-> gl, acc |-> acc, home_value |-> Num(value), debits |-> Absent,
     credits |-> Absent, nested |-> TRUE, name |-> name]

P2025_005 == <<2, 0, 2, 5, Slash, 0, 0, 5>>
P2025_006 == <<2, 0, 2, 5, Slash, 0, 0, 6>>

StartDates == {Date(2025, 5, 1), Date(2025, 6, 1)}
EndDates == {Date(2025, 5, 31), Date(2025, 6, 30)}

Accounts == {<<"GL001", "ACC001">>, <<"GL002", None>>}
Values == {-8, 1, 8}
Names == {P2025_005, P2025_006}

LineSpace == {Line(a[1], a[2], v, n) : a \in Accounts, v \in Values, n \in Names}

SeqsUpTo(S, n) == UNION {[1..k -> S] : k \in 0..n}

GlAccount(id, code) == [Id |-> id, c2g__ReportingCode__c |-> code]
Account(id, record_type) == [Id |-> id, record_type |-> record_type]

Code100 == <<1, 0, 0>>
Code401 == <<4, 0, 1>>

MasterData(gl_accounts, accounts) == [gl_accounts |-> gl_accounts, accounts |-> accounts]

(* GL003 and ACC002 have no transaction line *)
DefaultData ==
    MasterData(<<GlAccount("GL001", Code401), GlAccount("GL003", Code100)>>,
               <<Account("ACC001", "Standard"), Account("ACC002", "Supplier Data Management")>>)

Min(a, b) == IF a < b THEN a ELSE b
Max(a, b) == IF a < b THEN b ELSE a

(* the selections of a request whose periods carry the dates start and end *)
RequestOfDates(start, end) ==
    [selections |-> [year |-> end.year,
                     period_from |-> Min(start.month, end.month),
                     period_to |-> Max(start.month, end.month)],
     config |-> [selection_start_date |-> start, selection_end_date |-> end]]

---------------------------------------------------------------------------
(* The run *)

InitRun(lines, requests, datas) ==
    /\ transaction_lines \in lines
    /\ \E r \in requests : selections = r.selections /\ config = r.config
    /\ data \in datas
    /\ period_info_cache = <<>>
    /\ pc = "validate"
    /\ start_period_number = <<>>
    /\ end_period_number = <<>>
    /\ i = 0
    /\ sums = InitSums
    /\ gl_balances = EmptyDict
    /\ account_balances = EmptyDict
    /\ master_files = <<>>
    /\ general_ledger_entries = <<>>
    /\ xml = EmptyDict
    /\ bulk = InitBulk

InitWith(lines, starts, ends) ==
    InitRun(lines, {RequestOfDates(s, e) : s \in starts, e \in ends}, {DefaultData})

Init == InitWith(SeqsUpTo(LineSpace, MaxLines), StartDates, EndDates)

(* main.py: validate_dates exits the run when start > end *)
ValidateDates ==
    /\ pc = "validate"
    /\ pc' = IF DatesValid(config.selection_start_date, config.selection_end_date)
             THEN "transform" ELSE "exit"
    /\ UNCHANGED <<selections, data, master_files>>
    /\ UNCHANGED <<general_ledger_entries, xml, bulk>>
    /\ UNCHANGED <<config, transaction_lines, period_info_cache, start_period_number,
                   end_period_number, i, sums, gl_balances, account_balances>>

(* _transform_master_files: period_info = self._get_period_info() *)
TransformMasterFiles ==
    /\ pc = "transform"
    /\ period_info_cache' = <<GetPeriodInfo(period_info_cache, config)>>
    /\ pc' = "calculate"
    /\ UNCHANGED <<selections, data, master_files>>
    /\ UNCHANGED <<general_ledger_entries, xml, bulk>>
    /\ UNCHANGED <<config, transaction_lines, start_period_number, end_period_number,
                   i, sums, gl_balances, account_balances>>

(* _calculate_all_balances up to the loop *)
CalculateBegin ==
    /\ pc = "calculate"
    /\ IF transaction_lines = <<>>
       THEN /\ pc' = "done"
            /\ gl_balances' = EmptyDict
            /\ account_balances' = EmptyDict
            /\ UNCHANGED <<period_info_cache, start_period_number, end_period_number, sums>>
       ELSE LET info == GetPeriodInfo(period_info_cache, config)
            IN  /\ period_info_cache' = <<info>>
                /\ start_period_number' = StartPeriodNumber(info)
                /\ end_period_number' = EndPeriodNumber(info)
                /\ sums' = InitSums
                /\ pc' = "loop"
                /\ UNCHANGED <<gl_balances, account_balances>>
    /\ UNCHANGED <<selections, data, master_files>>
    /\ UNCHANGED <<general_ledger_entries, xml, bulk>>
    /\ UNCHANGED <<config, transaction_lines, i>>

(* one iteration of the loop *)
LoopStep ==
    /\ pc = "loop"
    /\ i < Len(transaction_lines)
    /\ sums' = ProcessLine(sums, transaction_lines[i + 1], start_period_number, end_period_number)
    /\ i' = i + 1
    /\ pc' = IF sums'.raised THEN "error" ELSE "loop"
    /\ UNCHANGED <<selections, data, master_files>>
    /\ UNCHANGED <<general_ledger_entries, xml, bulk>>
    /\ UNCHANGED <<config, transaction_lines, period_info_cache, start_period_number,
                   end_period_number, gl_balances, account_balances>>

(* after the loop: convert the raw sums and return *)
Convert ==
    /\ pc = "loop"
    /\ i = Len(transaction_lines)
    /\ gl_balances' = GlBalancesOf(sums)
    /\ account_balances' = AccountBalancesOf(sums)
    /\ pc' = "done"
    /\ UNCHANGED <<selections, data, master_files>>
    /\ UNCHANGED <<general_ledger_entries, xml, bulk>>
    /\ UNCHANGED <<config, transaction_lines, period_info_cache, start_period_number,
                   end_period_number, i, sums>>

(* _transform_master_files after _calculate_all_balances has returned *)
TransformAccounts ==
    /\ pc = "done"
    /\ master_files' =
          <<[general_ledger_accounts |-> TransformGlAccounts(data.gl_accounts, gl_balances),
             customers |-> TransformCustomers(data.accounts, account_balances),
             suppliers |-> TransformSuppliers(data.accounts, account_balances)]>>
    /\ pc' = "returned"
    /\ UNCHANGED <<selections, data, config, transaction_lines, period_info_cache,
                   start_period_number, end_period_number, i, sums, gl_balances,
                   account_balances>>
    /\ UNCHANGED <<general_ledger_entries, xml, bulk>>

Next ==
    \/ ValidateDates
    \/ TransformMasterFiles
    \/ CalculateBegin
    \/ LoopStep
    \/ Convert
    \/ TransformAccounts

Spec == Init /\ [][Next]_vars

---------------------------------------------------------------------------
(* _convert_debit_credit_to_net_position called on its own: the four       *)
(* arguments are the gl_ sums, each a dict of non-negative raw sums        *)

RawIds == {"GL001", "GL002"}
RawDicts == UNION {[ids -> 0..MaxRaw] : ids \in SUBSET RawIds}

InitConvert ==
    /\ sums \in {[InitSums EXCEPT !.gl_opening_debits = od, !.gl_opening_credits = oc,
                                  !.gl_closing_debits = cd, !.gl_closing_credits = cc] :
                    od \in RawDicts, oc \in RawDicts, cd \in RawDicts, cc \in RawDicts}
    /\ transaction_lines = <<>>
    /\ config = [selection_start_date |-> Date(2025, 5, 1), selection_end_date |-> Date(2025, 5, 31)]
    /\ period_info_cache = <<>>
    /\ pc = "convert"
    /\ start_period_number = <<>>
    /\ end_period_number = <<>>
    /\ i = 0
    /\ gl_balances = EmptyDict
    /\ account_balances = EmptyDict
    /\ selections = RequestOfDates(Date(2025, 5, 1), Date(2025, 5, 31)).selections
    /\ data = DefaultData
    /\ master_files = <<>>
    /\ general_ledger_entries = <<>>
    /\ xml = EmptyDict
    /\ bulk = InitBulk

ConvertCall ==
    /\ pc = "convert"
    /\ gl_balances' = ConvertDebitCreditToNetPosition(sums.gl_opening_debits, sums.gl_opening_credits,
                                                      sums.gl_closing_debits, sums.gl_closing_credits)
    /\ pc' = "converted"
    /\ UNCHANGED <<selections, data, master_files>>
    /\ UNCHANGED <<general_ledger_entries, xml, bulk>>
    /\ UNCHANGED <<config, transaction_lines, period_info_cache, start_period_number,
                   end_period_number, i, sums, account_balances>>

NextConvert == ConvertCall

SpecConvert == InitConvert /\ [][NextConvert]_vars

---------------------------------------------------------------------------
(* The run on lines of one account whose period names vary: the last       *)
(* period of a year, the periods 000, 001, 005 and 100, and a name whose   *)
(* period number is not zero-padded                                        *)

P2024_012 == <<2, 0, 2, 4, Slash, 0, 1, 2>>
P2025_000 == <<2, 0, 2, 5, Slash, 0, 0, 0>>
P2025_001 == <<2, 0, 2, 5, Slash, 0, 0, 1>>
P2025_100 == <<2, 0, 2, 5, Slash, 1, 0, 0>>
P2025_5 == <<2, 0, 2, 5, Slash, 5>>

PeriodNames == {P2024_012, P2025_000, P2025_001, P2025_005, P2025_100, P2025_5}
PeriodLineSpace == {Line("GL001", None, 1, n) : n \in PeriodNames}
PeriodStartDates == {Date(2025, 1, 1), Date(2025, 5, 1)}
PeriodEndDates == {Date(2025, 1, 31), Date(2025, 12, 31)}

InitPeriod == InitWith(SeqsUpTo(PeriodLineSpace, MaxLines), PeriodStartDates, PeriodEndDates)

SpecPeriod == InitPeriod /\ [][Next]_vars

---------------------------------------------------------------------------
(* The run on a request made by period numbers: the UI offers the periods  *)
(* 000, 001..012 and 100 of a year, and hands on the start date of the     *)
(* first requested period and the end date of the last one.  The dates are *)
(* those of the c2g__codaPeriod__c records: period NNN of 001..012 covers  *)
(* month NNN, period 000 is dated on the first day of the year and period  *)
(* 100 on the last.                                                        *)

LastDay(month) == IF month = 2 THEN 28 ELSE IF month \in {4, 6, 9, 11} THEN 30 ELSE 31

PeriodStartDate(year, number) ==
    IF number = 0 THEN Date(year, 1, 1)
    ELSE IF number = 100 THEN Date(year, 12, 31)
    ELSE Date(year, number, 1)

PeriodEndDate(year, number) ==
    IF number = 0 THEN Date(year, 1, 1)
    ELSE IF number = 100 THEN Date(year, 12, 31)
    ELSE Date(year, number, LastDay(number))

RequestOfPeriods(year, period_from, period_to) ==
    [selections |-> [year |-> year, period_from |-> period_from, period_to |-> period_to],
     config |-> [selection_start_date |-> PeriodStartDate(year, period_from),
                 selection_end_date |-> PeriodEndDate(year, period_to)]]

P2025_012 == <<2, 0, 2, 5, Slash, 0, 1, 2>>

RequestPeriods == {0, 1, 5, 12, 100}
Requests == {RequestOfPeriods(2025, f, t) : f \in RequestPeriods, t \in RequestPeriods}
ValidRequests == {r \in Requests : r.selections.period_from <= r.selections.period_to}
RequestNames == {P2024_012, P2025_000, P2025_005, P2025_012, P2025_100}
RequestLineSpace == {Line("GL001", None, 1, n) : n \in RequestNames}

InitRequest == InitRun(SeqsUpTo(RequestLineSpace, MaxLines), ValidRequests, {DefaultData})

SpecRequest == InitRequest /\ [][Next]_vars

---------------------------------------------------------------------------
(* The run on lines whose fields vary: with and without a GL account id    *)
(* and a c2g__Account__c id, with and without a period name or the nested  *)
(* c2g__Transaction__r structure, and with the amount in c2g__HomeValue__c *)
(* or in c2g__HomeDebits__c and c2g__HomeCredits__c, each a number, None,  *)
(* the empty string or text that is not a number                           *)

FieldAccounts == {<<"GL001", "ACC001">>, <<"GL001", None>>, <<None, "ACC001">>, <<None, None>>}
FieldPeriods == {<<TRUE, P2025_005>>, <<TRUE, P2025_006>>, <<TRUE, <<>>>>, <<FALSE, <<>>>>}
FieldHomeValues == {Num(1), Absent, Empty, Text}
FieldDebits == {Num(8), Absent}
FieldCredits == {Num(1), Absent}

FieldLineSpace ==
    {TransactionLine(a[1], a[2], Num(-8), Absent, Absent, p[1], p[2]) :
        a \in FieldAccounts, p \in FieldPeriods}
    \cup
    {TransactionLine("GL001", "ACC001", h, d, c, TRUE, P2025_005) :
        h \in FieldHomeValues, d \in FieldDebits, c \in FieldCredits}

FieldRequests == {RequestOfPeriods(2025, 5, 5), RequestOfPeriods(2025, 6, 6)}

InitLines == InitRun(SeqsUpTo(FieldLineSpace, MaxFieldLines), FieldRequests, {DefaultData})

SpecLines == InitLines /\ [][Next]_vars

---------------------------------------------------------------------------
(* The run on lines of which one field is malformed: a period number that  *)
(* is not one of 000, 001..012, 100, a period name without '/' or with two *)
(* '/', and an amount that is text                                         *)

P2024_013 == <<2, 0, 2, 4, Slash, 0, 1, 3>>
P2025_099 == <<2, 0, 2, 5, Slash, 0, 9, 9>>
NoSlashName == <<2, 0, 2, 5, 0, 0, 5>>
TwoSlashName == <<2, 0, 2, 5, Slash, 0, 0, 5, Slash, 1>>

MalformedNames == {P2025_005, P2024_013, P2025_099, NoSlashName, TwoSlashName}
MalformedValues == {Text, InfText}

MalformedLineSpace ==
    {Line("GL001", "ACC001", 1, n) : n \in MalformedNames}
    \cup
    {TransactionLine("GL001", "ACC001", h, Absent, Absent, TRUE, P2025_005) :
        h \in MalformedValues}

InitMalformed ==
    InitRun(SeqsUpTo(MalformedLineSpace, MaxLines), {RequestOfPeriods(2025, 5, 5)}, {DefaultData})

SpecMalformed == InitMalformed /\ [][Next]_vars

---------------------------------------------------------------------------
(* The run on master data that varies: GL accounts with and without        *)
(* transaction lines, accounts of the record types Standard, Supplier Data *)
(* Management and another one, with an Id that is a string, None or empty, *)
(* and lines of one partner posted to two GL accounts                      *)

GlAccountSpace == {GlAccount(id, code) : id \in {"GL001", "GL003"}, code \in {Code100, Code401}}

AccountSpace ==
    {Account("ACC001", "Standard"), Account("ACC002", "Standard"),
     Account("ACC001", "Supplier Data Management"), Account(None, "Standard"),
     Account("", "Supplier Data Management"), Account("ACC002", "Other")}

MasterDataSpace ==
    {MasterData(g, a) : g \in SeqsUpTo(GlAccountSpace, MaxAccounts),
                        a \in SeqsUpTo(AccountSpace, MaxAccounts)}

MasterLines ==
    {<<>>,
     <<Line("GL001", "ACC001", 1, P2025_005)>>,
     <<Line("GL001", "ACC001", 1, P2025_005), Line("GL002", "ACC001", 1, P2025_005)>>}

InitMaster == InitRun(MasterLines, {RequestOfPeriods(2025, 5, 5)}, MasterDataSpace)

SpecMaster == InitMaster /\ [][Next]_vars

---------------------------------------------------------------------------
(* The run on lines of several accounts: two GL accounts and two partner   *)
(* accounts, interleaved, with debit and credit amounts before and within  *)
(* the window                                                              *)

IndependentAccounts == {<<"GL001", "ACC001">>, <<"GL002", "ACC002">>, <<"GL001", "ACC002">>}
IndependentValues == {-8, 1}

IndependentLineSpace ==
    {Line(a[1], a[2], v, n) : a \in IndependentAccounts, v \in IndependentValues, n \in Names}

InitIndependent ==
    InitRun(SeqsUpTo(IndependentLineSpace, MaxLines), {RequestOfPeriods(2025, 6, 6)}, {DefaultData})

SpecIndependent == InitIndependent /\ [][Next]_vars

---------------------------------------------------------------------------
(* The run on lines of one GL account whose amounts cancel or are zero,    *)
(* all of them at or before the end of the window                          *)

ZeroValues == {-1, 0, 1}
ZeroLineSpace == {Line("GL001", None, v, n) : v \in ZeroValues, n \in Names}

InitZero == InitRun(SeqsUpTo(ZeroLineSpace, MaxLines), {RequestOfPeriods(2025, 6, 6)}, {DefaultData})

SpecZero == InitZero /\ [][Next]_vars

---------------------------------------------------------------------------
(* The run on repeated lines: up to MaxLines lines of one amount for one   *)
(* GL account in one period                                                *)

PrecisionValues == 1..7
RepeatedLines(n, v) == [k \in 1..n |-> Line("GL001", None, v, P2025_005)]
PrecisionLines == {RepeatedLines(n, v) : n \in 0..MaxLines, v \in PrecisionValues}

InitPrecision == InitRun(PrecisionLines, FieldRequests, {DefaultData})

SpecPrecision == InitPrecision /\ [][Next]_vars

---------------------------------------------------------------------------
(* One CertiniaTransformer instance used for several passes: after a pass  *)
(* has returned, the owner of the instance may set other selection dates   *)
(* in the configuration, may reset _period_info_cache to None, and may     *)
(* call _calculate_all_balances again                                      *)

MemoLineSpace == {Line("GL001", None, 1, n) : n \in Names}

InitMemo == InitWith(SeqsUpTo(MemoLineSpace, MaxLines), StartDates, EndDates)

(* config['saft']['selection_start_date'] = ...; config['saft']['selection_end_date'] = ... *)
SetSelectionDates ==
    /\ pc = "returned"
    /\ \E s \in StartDates, e \in EndDates :
          /\ config' = [selection_start_date |-> s, selection_end_date |-> e]
          /\ config' # config
    /\ UNCHANGED <<selections, data, transaction_lines, period_info_cache, pc,
                   start_period_number, end_period_number, i, sums, gl_balances,
                   account_balances, master_files>>
    /\ UNCHANGED <<general_ledger_entries, xml, bulk>>

(* transformer._period_info_cache = None *)
ResetPeriodInfoCache ==
    /\ pc = "returned"
    /\ period_info_cache # <<>>
    /\ period_info_cache' = <<>>
    /\ UNCHANGED <<selections, data, config, transaction_lines, pc,
                   start_period_number, end_period_number, i, sums, gl_balances,
                   account_balances, master_files>>
    /\ UNCHANGED <<general_ledger_entries, xml, bulk>>

(* transformer._calculate_all_balances(transaction_lines), once more *)
CalculateAgain ==
    /\ pc = "returned"
    /\ pc' = "calculate"
    /\ i' = 0
    /\ UNCHANGED <<selections, data, config, transaction_lines, period_info_cache,
                   start_period_number, end_period_number, sums, gl_balances,
                   account_balances, master_files>>
    /\ UNCHANGED <<general_ledger_entries, xml, bulk>>

NextMemo ==
    \/ ValidateDates
    \/ TransformMasterFiles
    \/ CalculateBegin
    \/ LoopStep
    \/ Convert
    \/ TransformAccounts
    \/ SetSelectionDates
    \/ ResetPeriodInfoCache
    \/ CalculateAgain

SpecMemo == InitMemo /\ [][NextMemo]_vars

---------------------------------------------------------------------------
(* The run on lines that lack one of the two ids or the period name, or    *)
(* whose period name has two '/'                                           *)

GroupedNames == {P2025_005, P2025_006, <<>>, TwoSlashName}
GroupedLineSpace ==
    {Line(a[1], a[2], v, n) : a \in FieldAccounts, v \in IndependentValues, n \in GroupedNames}

InitGrouped == InitRun(SeqsUpTo(GroupedLineSpace, MaxFieldLines), FieldRequests, {DefaultData})

SpecGrouped == InitGrouped /\ [][Next]_vars

---------------------------------------------------------------------------
(* _convert_debit_credit_to_net_position followed by the serialization of  *)
(* each balance record with _add_balance                                   *)

AddBalanceCall ==
    /\ pc = "converted"
    /\ xml' = [id \in DOMAIN gl_balances |->
                  AddBalance(gl_balances[id].opening_debit_balance,
                             gl_balances[id].opening_credit_balance,
                             gl_balances[id].closing_debit_balance,
                             gl_balances[id].closing_credit_balance)]
    /\ pc' = "serialized"
    /\ UNCHANGED <<selections, data, config, transaction_lines, period_info_cache,
                   start_period_number, end_period_number, i, sums, gl_balances,
                   account_balances, master_files, general_ledger_entries, bulk>>

NextSerialize ==
    \/ ConvertCall
    \/ AddBalanceCall

SpecSerialize == InitConvert /\ [][NextSerialize]_vars

---------------------------------------------------------------------------
(* The journal lines of one journal, transformed by _transform_gl_entries  *)
(* and written by _add_journal_entry; c2g__Debits__c and c2g__Credits__c   *)
(* are each a negative number, zero, a positive number, absent or text     *)

JournalFieldValues == {Num(-1), Num(0), Num(1), Absent, Text}
JournalLineSpace ==
    {[c2g__Debits__c |-> d, c2g__Credits__c |-> c] :
        d \in JournalFieldValues, c \in JournalFieldValues}

InitJournal ==
    /\ data \in {[gl_accounts |-> <<>>, accounts |-> <<>>, journal_lines |-> l] :
                    l \in SeqsUpTo(JournalLineSpace, MaxFieldLines)}
    /\ selections = RequestOfPeriods(2025, 5, 5).selections
    /\ config = RequestOfPeriods(2025, 5, 5).config
    /\ transaction_lines = <<>>
    /\ period_info_cache = <<>>
    /\ pc = "gl_entries"
    /\ start_period_number = <<>>
    /\ end_period_number = <<>>
    /\ i = 0
    /\ sums = InitSums
    /\ gl_balances = EmptyDict
    /\ account_balances = EmptyDict
    /\ master_files = <<>>
    /\ general_ledger_entries = <<>>
    /\ xml = EmptyDict
    /\ bulk = InitBulk

(* _transform_gl_entries: a journal without lines gives no entry *)
TransformGlEntries ==
    /\ pc = "gl_entries"
    /\ period_info_cache' = <<GetPeriodInfo(period_info_cache, config)>>
    /\ general_ledger_entries' =
          IF data.journal_lines = <<>> THEN <<>>
          ELSE <<[transaction_id |-> 1, lines |-> TransformJournalLines(data.journal_lines)]>>
    /\ pc' = "generate"
    /\ UNCHANGED <<selections, data, config, transaction_lines, start_period_number,
                   end_period_number, i, sums, gl_balances, account_balances,
                   master_files, xml, bulk>>

(* _add_general_ledger_entries: _add_journal_entry for every entry *)
AddJournalEntries ==
    /\ pc = "generate"
    /\ xml' = IF general_ledger_entries = <<>> THEN EmptyDict
              ELSE [record_id \in 1..Len(general_ledger_entries[1].lines) |->
                       JournalLineAmount(general_ledger_entries[1].lines[record_id])]
    /\ pc' = "generated"
    /\ UNCHANGED <<selections, data, config, transaction_lines, period_info_cache,
                   start_period_number, end_period_number, i, sums, gl_balances,
                   account_balances, master_files, general_ledger_entries, bulk>>

NextJournal ==
    \/ TransformGlEntries
    \/ AddJournalEntries

SpecJournal == InitJournal /\ [][NextJournal]_vars

---------------------------------------------------------------------------
(* query_bulk once the bulk job is created: the polling loop, the check    *)
(* after it and the download of the results.  Every request is answered;   *)
(* the state a poll returns is chosen by Salesforce.                       *)

JobStates == {"InProgress", "JobComplete", "Failed", "Aborted"}

InitQueryBulk ==
    /\ bulk = InitBulk
    /\ pc = "poll"
    /\ selections = RequestOfPeriods(2025, 5, 5).selections
    /\ config = RequestOfPeriods(2025, 5, 5).config
    /\ data = DefaultData
    /\ transaction_lines = <<>>
    /\ period_info_cache = <<>>
    /\ start_period_number = <<>>
    /\ end_period_number = <<>>
    /\ i = 0
    /\ sums = InitSums
    /\ gl_balances = EmptyDict
    /\ account_balances = EmptyDict
    /\ master_files = <<>>
    /\ general_ledger_entries = <<>>
    /\ xml = EmptyDict

(* one iteration of 'while wait_time < max_wait' *)
PollJob ==
    /\ pc = "poll"
    /\ bulk.wait_time < max_wait
    /\ \E state \in JobStates :
          LET wait_time == bulk.wait_time + bulk.poll_interval
          IN  IF state = "JobComplete"
              THEN /\ bulk' = [bulk EXCEPT !.wait_time = wait_time, !.state = state]
                   /\ pc' = "after_loop"
              ELSE IF state \in {"Failed", "Aborted"}
              THEN /\ bulk' = [bulk EXCEPT !.wait_time = wait_time, !.state = state,
                                           !.raised = "Exception"]
                   /\ pc' = "raised"
              ELSE /\ bulk' = [bulk EXCEPT !.wait_time = wait_time, !.state = state,
                                           !.poll_interval =
                                               NextPollInterval(wait_time, bulk.poll_interval)]
                   /\ pc' = "poll"
    /\ UNCHANGED <<selections, data, config, transaction_lines, period_info_cache,
                   start_period_number, end_period_number, i, sums, gl_balances,
                   account_balances, master_files, general_ledger_entries, xml>>

(* the loop condition fails *)
PollLoopEnds ==
    /\ pc = "poll"
    /\ ~(bulk.wait_time < max_wait)
    /\ pc' = "after_loop"
    /\ UNCHANGED <<selections, data, config, transaction_lines, period_info_cache,
                   start_period_number, end_period_number, i, sums, gl_balances,
                   account_balances, master_files, general_ledger_entries, xml, bulk>>

(* after the loop: raise TimeoutError, or download the results and return *)
RetrieveResults ==
    /\ pc = "after_loop"
    /\ IF bulk.wait_time >= max_wait
       THEN /\ bulk' = [bulk EXCEPT !.raised = "TimeoutError"]
            /\ pc' = "raised"
       ELSE /\ bulk' = [bulk EXCEPT !.all_records = "records"]
            /\ pc' = "returned"
    /\ UNCHANGED <<selections, data, config, transaction_lines, period_info_cache,
                   start_period_number, end_period_number, i, sums, gl_balances,
                   account_balances, master_files, general_ledger_entries, xml>>

NextQueryBulk ==
    \/ PollJob
    \/ PollLoopEnds
    \/ RetrieveResults

SpecQueryBulk == InitQueryBulk /\ [][NextQueryBulk]_vars /\ WF_vars(NextQueryBulk)

---------------------------------------------------------------------------
(* Vocabulary of the properties *)

Dims == {"gl", "acc"}
DimId(line, dim) == IF dim = "gl" THEN line.gl ELSE line.acc
Result(dim) == IF dim = "gl" THEN gl_balances ELSE account_balances
OpeningDebits(s, dim) == IF dim = "gl" THEN s.gl_opening_debits ELSE s.acc_opening_debits
OpeningCredits(s, dim) == IF dim = "gl" THEN s.gl_opening_credits ELSE s.acc_opening_credits
ClosingDebits(s, dim) == IF dim = "gl" THEN s.gl_closing_debits ELSE s.acc_closing_debits
ClosingCredits(s, dim) == IF dim = "gl" THEN s.gl_closing_credits ELSE s.acc_closing_credits
KeyOf(line) == GetPeriodNumber(line).key
HasKey(line) == ~GetPeriodNumber(line).raised /\ KeyOf(line) # <<>>
LineIds(dim) == {DimId(transaction_lines[k], dim) : k \in 1..Len(transaction_lines)}
LinesOfId(dim, id) == {k \in 1..Len(transaction_lines) : DimId(transaction_lines[k], dim) = id}

(* a step of the loop that visits transaction_lines[i + 1] without raising *)
VisitsLine == pc = "loop" /\ pc' = "loop" /\ i' = i + 1
VisitedLine == transaction_lines[i + 1]

---------------------------------------------------------------------------
(* C1: when an account's only line has a period key within the closing     *)
(* window and net value v, the returned closing balance is debit = v,      *)
(* credit = 0 for v > 0 and debit = 0, credit = |v| for v < 0.             *)
C1_SoleLine(dim, id, k) ==
    /\ Truthy(id)
    /\ LinesOfId(dim, id) = {k}
    /\ HasKey(transaction_lines[k])
    /\ StrLessEq(KeyOf(transaction_lines[k]), end_period_number)

C1_SignCorrectness ==
    pc = "done" =>
        \A dim \in Dims : \A id \in LineIds(dim) : \A k \in LinesOfId(dim, id) :
            C1_SoleLine(dim, id, k) =>
                LET v == GetNetValue(transaction_lines[k])
                IN  /\ v > 0 => /\ id \in DOMAIN Result(dim)
                                /\ Result(dim)[id].closing_debit_balance = v
                                /\ Result(dim)[id].closing_credit_balance = 0
                    /\ v < 0 => /\ id \in DOMAIN Result(dim)
                                /\ Result(dim)[id].closing_debit_balance = 0
                                /\ Result(dim)[id].closing_credit_balance = Abs(v)

C1_Witness ==
    /\ pc = "done"
    /\ \E dim \in Dims : \E id \in LineIds(dim) : \E k \in LinesOfId(dim, id) :
          /\ C1_SoleLine(dim, id, k)
          /\ GetNetValue(transaction_lines[k]) < 0
          /\ Result(dim)[id].closing_credit_balance > 0

---------------------------------------------------------------------------
(* C2: with startKey <= endKey, visiting a line whose period key equals    *)
(* the start key leaves every opening sum unchanged and adds the line's    *)
(* net value to the closing sum of its account, on the side of its sign.   *)
NetAddedToClosing(dim) ==
    LET id == DimId(VisitedLine, dim)
        v  == GetNetValue(VisitedLine)
    IN  Truthy(id) =>
          /\ v > 0 => /\ id \in DOMAIN ClosingDebits(sums', dim)
                      /\ ClosingDebits(sums', dim)[id]
                           = FloatAdd(Get(ClosingDebits(sums, dim), id, 0), v)
          /\ v < 0 => /\ id \in DOMAIN ClosingCredits(sums', dim)
                      /\ ClosingCredits(sums', dim)[id]
                           = FloatAdd(Get(ClosingCredits(sums, dim), id, 0), Abs(v))

C2_StartBoundary ==
    [][(/\ VisitsLine
        /\ HasKey(VisitedLine)
        /\ KeyOf(VisitedLine) = start_period_number
        /\ StrLessEq(start_period_number, end_period_number))
       => /\ \A dim \in Dims : /\ OpeningDebits(sums', dim) = OpeningDebits(sums, dim)
                               /\ OpeningCredits(sums', dim) = OpeningCredits(sums, dim)
                               /\ NetAddedToClosing(dim)
          /\ ~sums'.is_opening
          /\ sums'.is_closing]_vars

C2_Witness ==
    /\ pc = "loop"
    /\ i > 0
    /\ sums.period_number = start_period_number
    /\ StrLess(start_period_number, end_period_number)
    /\ Truthy(transaction_lines[i].acc)
    /\ sums.net_value < 0
    /\ transaction_lines[i].acc \in DOMAIN sums.acc_closing_credits
    /\ sums.acc_opening_credits = EmptyDict

---------------------------------------------------------------------------
(* C3: visiting a line whose period key is greater than the end key        *)
(* changes no opening and no closing sum; visiting a line whose key is     *)
(* at most the end key adds its net value to the closing sum of each       *)
(* account it names.                                                       *)
C3_SumsUnchanged ==
    \A dim \in Dims : /\ OpeningDebits(sums', dim) = OpeningDebits(sums, dim)
                      /\ OpeningCredits(sums', dim) = OpeningCredits(sums, dim)
                      /\ ClosingDebits(sums', dim) = ClosingDebits(sums, dim)
                      /\ ClosingCredits(sums', dim) = ClosingCredits(sums, dim)

C3_EndBoundary ==
    [][(VisitsLine /\ HasKey(VisitedLine))
       => IF StrLessEq(KeyOf(VisitedLine), end_period_number)
          THEN \A dim \in Dims : NetAddedToClosing(dim)
          ELSE C3_SumsUnchanged]_vars

C3_Witness ==
    /\ pc = "done"
    /\ \E k \in 1..Len(transaction_lines) :
          /\ StrLess(end_period_number, KeyOf(transaction_lines[k]))
          /\ GetNetValue(transaction_lines[k]) # 0
          /\ transaction_lines[k].gl \notin DOMAIN gl_balances
    /\ \E k \in 1..Len(transaction_lines) :
          /\ KeyOf(transaction_lines[k]) = end_period_number
          /\ transaction_lines[k].gl \in DOMAIN gl_balances

---------------------------------------------------------------------------
(* C5: every record returned by _convert_debit_credit_to_net_position has  *)
(* four fields >= 0, at most one nonzero field in the opening pair and at  *)
(* most one nonzero field in the closing pair, for all non-negative raw    *)
(* sums.                                                                   *)
C5_SameSideOutput ==
    pc = "converted" =>
        \A id \in DOMAIN gl_balances :
            LET b == gl_balances[id]
            IN  /\ b.opening_debit_balance >= 0
                /\ b.opening_credit_balance >= 0
                /\ b.closing_debit_balance >= 0
                /\ b.closing_credit_balance >= 0
                /\ b.opening_debit_balance = 0 \/ b.opening_credit_balance = 0
                /\ b.closing_debit_balance = 0 \/ b.closing_credit_balance = 0

C5_Witness ==
    /\ pc = "converted"
    /\ \E id \in DOMAIN gl_balances :
          /\ Get(sums.gl_opening_debits, id, 0) > 0
          /\ Get(sums.gl_opening_credits, id, 0) > Get(sums.gl_opening_debits, id, 0)
          /\ Get(sums.gl_closing_credits, id, 0) > 0
          /\ Get(sums.gl_closing_debits, id, 0) > Get(sums.gl_closing_credits, id, 0)
          /\ gl_balances[id].opening_debit_balance > 0
          /\ gl_balances[id].closing_debit_balance > 0

---------------------------------------------------------------------------
(* C7: in _convert_debit_credit_to_net_position the sign of the closing    *)
(* net decides the side of both the opening and the closing amount; with   *)
(* closing net 0 the sign of the opening net decides the side of the       *)
(* opening amount; with both nets 0 all four fields are 0.                 *)
C7_OpeningNet(id) == Get(sums.gl_opening_debits, id, 0) - Get(sums.gl_opening_credits, id, 0)
C7_ClosingNet(id) == Get(sums.gl_closing_debits, id, 0) - Get(sums.gl_closing_credits, id, 0)

---------------------------------------------------------------------------
(* C4: for every account of the result, closing debit minus closing        *)
(* credit equals the sum of the net values of that account's lines with    *)
(* periodKey <= endKey.                                                    *)
C4_ExactClosingNet(dim, id) ==
    LET F[k \in 0..Len(transaction_lines)] ==
            IF k = 0 THEN 0
            ELSE IF /\ DimId(transaction_lines[k], dim) = id
                    /\ HasKey(transaction_lines[k])
                    /\ StrLessEq(KeyOf(transaction_lines[k]), end_period_number)
                 THEN F[k - 1] + GetNetValue(transaction_lines[k])
                 ELSE F[k - 1]
    IN  F[Len(transaction_lines)]

C4_Conservation ==
    pc = "done" =>
        \A dim \in Dims : \A id \in DOMAIN Result(dim) :
            Result(dim)[id].closing_debit_balance - Result(dim)[id].closing_credit_balance
                = C4_ExactClosingNet(dim, id)

---------------------------------------------------------------------------
(* C6: when an account's opening net is positive and its closing net is    *)
(* negative, the opening balance is reported on the debit side and the     *)
(* closing balance on the credit side.                                     *)
C6_SignFlip ==
    pc = "done" =>
        \A dim \in Dims : \A id \in DOMAIN Result(dim) :
            LET on == Get(OpeningDebits(sums, dim), id, 0) - Get(OpeningCredits(sums, dim), id, 0)
                cn == Get(ClosingDebits(sums, dim), id, 0) - Get(ClosingCredits(sums, dim), id, 0)
            IN  (on > 0 /\ cn < 0) =>
                    /\ Result(dim)[id].opening_debit_balance = on
                    /\ Result(dim)[id].opening_credit_balance = 0
                    /\ Result(dim)[id].closing_debit_balance = 0
                    /\ Result(dim)[id].closing_credit_balance = Abs(cn)

---------------------------------------------------------------------------
(* C8: every permutation of the input lines gives the same balance record  *)
(* for every account in both dimensions.                                   *)
C8_OrderIndependence ==
    pc = "done" =>
        \A p \in Permutations(1..Len(transaction_lines)) :
            LET permuted == [k \in 1..Len(transaction_lines) |-> transaction_lines[p[k]]]
                r == CalculateAllBalances(permuted, start_period_number, end_period_number)
            IN  r.gl = gl_balances /\ r.acc = account_balances

---------------------------------------------------------------------------
(* C9: processing two disjoint subsets of the lines separately and adding  *)
(* the two results field by field per account gives the result of          *)
(* processing all the lines at once.                                       *)
C9_Pick(lines, S) ==
    LET F[k \in 0..Len(lines)] ==
            IF k = 0 THEN <<>>
            ELSE IF k \in S THEN Append(F[k - 1], lines[k]) ELSE F[k - 1]
    IN  F[Len(lines)]

C9_Zero ==
    [opening_debit_balance |-> 0, opening_credit_balance |-> 0,
     closing_debit_balance |-> 0, closing_credit_balance |-> 0]

C9_FieldSum(x, y) ==
    [id \in (DOMAIN x) \cup (DOMAIN y) |->
        LET a == Get(x, id, C9_Zero)
            b == Get(y, id, C9_Zero)
        IN  [opening_debit_balance  |-> FloatAdd(a.opening_debit_balance, b.opening_debit_balance),
             opening_credit_balance |-> FloatAdd(a.opening_credit_balance, b.opening_credit_balance),
             closing_debit_balance  |-> FloatAdd(a.closing_debit_balance, b.closing_debit_balance),
             closing_credit_balance |-> FloatAdd(a.closing_credit_balance, b.closing_credit_balance)]]

C9_Additivity ==
    pc = "done" =>
        \A S \in SUBSET (1..Len(transaction_lines)) :
            LET one == CalculateAllBalances(C9_Pick(transaction_lines, S),
                                            start_period_number, end_period_number)
                two == CalculateAllBalances(
                           C9_Pick(transaction_lines, (1..Len(transaction_lines)) \ S),
                           start_period_number, end_period_number)
            IN  /\ C9_FieldSum(one.gl, two.gl) = gl_balances
                /\ C9_FieldSum(one.acc, two.acc) = account_balances

---------------------------------------------------------------------------
(* C10: for every line whose period name _get_period_number accepts, the   *)
(* string comparisons of its key with the start and end keys agree with    *)
(* the numeric comparisons of (year, period number), and the line key has  *)
(* the width of the window keys.                                           *)
RECURSIVE C10_ToInt(_)
C10_ToInt(digits) ==
    IF digits = <<>> THEN 0
    ELSE 10 * C10_ToInt(SubSeq(digits, 1, Len(digits) - 1)) + digits[Len(digits)]

C10_Year(name) == C10_ToInt(SubSeq(name, 1, FirstSlash(name) - 1))
C10_Period(name) == C10_ToInt(SubSeq(name, FirstSlash(name) + 1, Len(name)))

C10_Before(y1, p1, y2, p2) == y1 < y2 \/ (y1 = y2 /\ p1 < p2)

C10_KeyOrdering ==
    (pc \in {"loop", "done"} /\ i > 0 /\ HasKey(transaction_lines[i])) =>
        LET name == transaction_lines[i].name
            y    == C10_Year(name)
            p    == C10_Period(name)
            info == period_info_cache[1]
        IN  /\ sums.is_opening = C10_Before(y, p, info.start_period_year, info.start_period)
            /\ sums.is_closing = ~C10_Before(info.period_year, info.period, y, p)
            /\ Len(sums.period_number) = Len(start_period_number)
            /\ Len(sums.period_number) = Len(end_period_number)

---------------------------------------------------------------------------
(* C11: for a report requested from period f through period p of year Y,   *)
(* with f and p among 0, 1..12 and 100, the start key of                   *)
(* _calculate_all_balances is Y followed by f and the end key is Y         *)
(* followed by p, each zero-padded to three digits, and every line tagged  *)
(* with a period up to Y/p is counted in the closing sum.                  *)
C11_RequestedKey(number) == Digits(selections.year) \o Pad3(number)

C11_LinesThrough(key) ==
    Cardinality({k \in 1..Len(transaction_lines) : StrLessEq(KeyOf(transaction_lines[k]), key)})

C11_WindowKeys ==
    (pc \in {"loop", "done", "returned"} /\ transaction_lines # <<>>) =>
        /\ start_period_number = C11_RequestedKey(selections.period_from)
        /\ end_period_number = C11_RequestedKey(selections.period_to)
        /\ pc = "done" =>
              Get(sums.gl_closing_debits, "GL001", 0)
                  = C11_LinesThrough(C11_RequestedKey(selections.period_to))

---------------------------------------------------------------------------
(* C12: visiting a line with no period name or no nested transaction or    *)
(* period structure changes no opening and no closing sum in either        *)
(* dimension, adds one to the missing-period skip count, and the loop goes *)
(* on to the next line.                                                    *)
C12_NoPeriodKey(line) == ~line.nested \/ line.name = <<>>

C12_MissingPeriodKey ==
    [][(pc = "loop" /\ i' = i + 1 /\ C12_NoPeriodKey(VisitedLine))
       => /\ C3_SumsUnchanged
          /\ sums'.skipped_no_period = sums.skipped_no_period + 1
          /\ sums'.processed_opening = sums.processed_opening
          /\ sums'.processed_closing = sums.processed_closing
          /\ pc' = "loop"]_vars

C12_Witness ==
    /\ pc = "done"
    /\ Len(transaction_lines) = 2
    /\ C12_NoPeriodKey(transaction_lines[1])
    /\ ~transaction_lines[1].nested
    /\ Truthy(transaction_lines[1].gl)
    /\ GetNetValue(transaction_lines[1]) # 0
    /\ sums.skipped_no_period = 1
    /\ ~Truthy(transaction_lines[2].gl)
    /\ transaction_lines[2].acc \in DOMAIN account_balances
    /\ gl_balances = EmptyDict

---------------------------------------------------------------------------
(* C13: visiting a line whose period number is not one of 0, 1..12, 100    *)
(* changes no opening and no closing sum of any account, and the run goes  *)
(* on.                                                                     *)
C13_ValidPeriodNumbers == {0, 100} \cup (1..12)

C13_InvalidPeriodNumber(line) ==
    /\ line.nested
    /\ SlashCount(line.name) = 1
    /\ C10_Period(line.name) \notin C13_ValidPeriodNumbers

C13_InvalidPeriodExcluded ==
    [][(pc = "loop" /\ i' = i + 1 /\ C13_InvalidPeriodNumber(VisitedLine))
       => C3_SumsUnchanged /\ pc' = "loop"]_vars

---------------------------------------------------------------------------
(* C14: whatever the content of a line, _calculate_all_balances does not   *)
(* raise: the loop visits every line and the balances are returned.        *)
C14_NoLineAborts == pc # "error"

---------------------------------------------------------------------------
(* C16: a line whose amount is text that is not a number has net value 0   *)
(* and changes no accumulator, and the loop goes on.                       *)
C16_NotANumber(value) == value.t \in {"text", "inf"}

C16_MalformedIsZero ==
    [][(pc = "loop" /\ i' = i + 1 /\ C16_NotANumber(VisitedLine.home_value))
       => /\ sums'.net_value = 0
          /\ C3_SumsUnchanged
          /\ pc' = "loop"]_vars

---------------------------------------------------------------------------
(* C15: the net value of a line is its c2g__HomeValue__c whenever that is  *)
(* present and not empty, whatever the debit and credit fields hold, and   *)
(* otherwise debit minus credit, a missing debit or credit counting as 0.  *)
C15_Amount(field) == IF field.t = "num" THEN field.v ELSE 0

C15_SignedAmountPresent(line) == line.home_value.t \notin {"none", "empty"}

C15_NetValueExtraction ==
    (pc \in {"loop", "done", "returned"} /\ i > 0) =>
        LET line == transaction_lines[i]
        IN  sums.net_value =
                IF C15_SignedAmountPresent(line)
                THEN C15_Amount(line.home_value)
                ELSE FloatSub(C15_Amount(line.debits), C15_Amount(line.credits))

C15_Witness ==
    /\ pc = "done"
    /\ i = 2
    /\ transaction_lines[1].home_value = Num(1)
    /\ transaction_lines[1].debits = Num(8)
    /\ transaction_lines[1].credits = Absent
    /\ transaction_lines[2].home_value = Empty
    /\ transaction_lines[2].debits = Absent
    /\ transaction_lines[2].credits = Num(1)
    /\ sums.net_value = -1
    /\ sums.gl_closing_debits = [x \in {"GL001"} |-> 1]
    /\ sums.gl_closing_credits = [x \in {"GL001"} |-> 1]

---------------------------------------------------------------------------
(* C17: _transform_gl_accounts returns exactly one record per input GL     *)
(* account, _transform_customers and _transform_suppliers one record per   *)
(* account of the matching record type with a non-empty string Id, and an  *)
(* account without an entry in the balance map has four balances of 0.     *)
C17_Balances(rec) ==
    [opening_debit_balance |-> rec.opening_debit_balance,
     opening_credit_balance |-> rec.opening_credit_balance,
     closing_debit_balance |-> rec.closing_debit_balance,
     closing_credit_balance |-> rec.closing_credit_balance]

C17_Expected(balances, id) == IF id \in DOMAIN balances THEN balances[id] ELSE C9_Zero

C17_GlAccountsKept(out) ==
    /\ Len(out) = Len(data.gl_accounts)
    /\ \E p \in Permutations(1..Len(out)) :
          \A k \in 1..Len(out) :
              /\ out[p[k]].account_id = data.gl_accounts[k].c2g__ReportingCode__c
              /\ C17_Balances(out[p[k]]) = C17_Expected(gl_balances, data.gl_accounts[k].Id)

C17_Matching(record_type) ==
    {k \in 1..Len(data.accounts) :
        /\ data.accounts[k].record_type = record_type
        /\ data.accounts[k].Id \notin {None, ""}}

C17_PartnersKept(out, record_type) ==
    /\ Len(out) = Cardinality(C17_Matching(record_type))
    /\ \A k \in C17_Matching(record_type) :
          LET rank == Cardinality({j \in C17_Matching(record_type) : j <= k})
          IN  /\ out[rank].partner_id = data.accounts[k].Id
              /\ C17_Balances(out[rank]) = C17_Expected(account_balances, data.accounts[k].Id)

---------------------------------------------------------------------------
(* C19: with a class prefix configured for the partner dimension, visiting *)
(* a line posted to a GL account whose code does not start with the prefix *)
(* leaves the sums of the line's partner unchanged.                        *)
C19_ClassPrefix == <<4>>

C19_HasPrefix(code, prefix) ==
    Len(code) >= Len(prefix) /\ SubSeq(code, 1, Len(prefix)) = prefix

C19_OutsideClass(line) ==
    /\ \E k \in 1..Len(data.gl_accounts) : data.gl_accounts[k].Id = line.gl
    /\ \A k \in 1..Len(data.gl_accounts) :
          data.gl_accounts[k].Id = line.gl =>
              ~C19_HasPrefix(data.gl_accounts[k].c2g__ReportingCode__c, C19_ClassPrefix)

C19_ClassFilter ==
    [][(VisitsLine /\ C19_OutsideClass(VisitedLine))
       => /\ OpeningDebits(sums', "acc") = OpeningDebits(sums, "acc")
          /\ OpeningCredits(sums', "acc") = OpeningCredits(sums, "acc")
          /\ ClosingDebits(sums', "acc") = ClosingDebits(sums, "acc")
          /\ ClosingCredits(sums', "acc") = ClosingCredits(sums, "acc")]_vars

---------------------------------------------------------------------------
(* C18: when the configured window has its start key greater than its end  *)
(* key, the run stops at the validation of the dates: no line is visited,  *)
(* no sum is accumulated and no balances are returned.                     *)
C18_StartKey == StartPeriodNumber(PeriodInfo(config))
C18_EndKey == EndPeriodNumber(PeriodInfo(config))

C18_InconsistentWindowFatal ==
    StrLess(C18_EndKey, C18_StartKey) =>
        /\ pc \in {"validate", "exit"}
        /\ i = 0
        /\ sums = InitSums
        /\ gl_balances = EmptyDict
        /\ account_balances = EmptyDict
        /\ master_files = <<>>

C18_Witness ==
    /\ pc = "exit"
    /\ StrLess(C18_EndKey, C18_StartKey)
    /\ Len(transaction_lines) = MaxLines
    /\ i = 0
    /\ sums = InitSums

---------------------------------------------------------------------------
(* C20: visiting a line that has a period key adds its net value to the    *)
(* GL sums if and only if it carries a GL account id and to the partner    *)
(* sums if and only if it carries a c2g__Account__c id, each dimension     *)
(* whatever the other key; a line with neither id changes no sum.          *)
C20_NetAddedToOpening(dim) ==
    LET id == DimId(VisitedLine, dim)
        v  == GetNetValue(VisitedLine)
    IN  /\ v > 0 => /\ id \in DOMAIN OpeningDebits(sums', dim)
                    /\ OpeningDebits(sums', dim)[id]
                         = FloatAdd(Get(OpeningDebits(sums, dim), id, 0), v)
        /\ v < 0 => /\ id \in DOMAIN OpeningCredits(sums', dim)
                    /\ OpeningCredits(sums', dim)[id]
                         = FloatAdd(Get(OpeningCredits(sums, dim), id, 0), Abs(v))

C20_DimUnchanged(dim) ==
    /\ OpeningDebits(sums', dim) = OpeningDebits(sums, dim)
    /\ OpeningCredits(sums', dim) = OpeningCredits(sums, dim)
    /\ ClosingDebits(sums', dim) = ClosingDebits(sums, dim)
    /\ ClosingCredits(sums', dim) = ClosingCredits(sums, dim)

C20_DimensionsIndependent ==
    [][(pc = "loop" /\ i' = i + 1 /\ ~C12_NoPeriodKey(VisitedLine))
       => \A dim \in Dims :
             IF DimId(VisitedLine, dim) \in {None, ""}
             THEN C20_DimUnchanged(dim)
             ELSE /\ StrLess(KeyOf(VisitedLine), start_period_number)
                        => C20_NetAddedToOpening(dim)
                  /\ StrLessEq(KeyOf(VisitedLine), end_period_number)
                        => NetAddedToClosing(dim)]_vars

C20_Witness ==
    /\ pc = "done"
    /\ Len(transaction_lines) = 2
    /\ transaction_lines[1].gl = None
    /\ transaction_lines[1].acc = "ACC001"
    /\ transaction_lines[2].gl = "GL001"
    /\ transaction_lines[2].acc = None
    /\ StrLess(KeyOf(transaction_lines[1]), start_period_number)
    /\ StrLess(KeyOf(transaction_lines[2]), start_period_number)
    /\ sums.acc_opening_credits = [x \in {"ACC001"} |-> 8]
    /\ sums.gl_opening_credits = [x \in {"GL001"} |-> 8]
    /\ sums.skipped_no_gl_account = 1
    /\ sums.skipped_no_account = 1

---------------------------------------------------------------------------
(* C21: visiting a line changes, in each dimension, only the sums of the   *)
(* account the line names; and the returned balance record of an account   *)
(* is the one computed from that account's lines alone, whatever lines of  *)
(* other accounts the collection holds.                                    *)
C21_LinesOf(dim, id) ==
    LET F[k \in 0..Len(transaction_lines)] ==
            IF k = 0 THEN <<>>
            ELSE IF DimId(transaction_lines[k], dim) = id
                 THEN Append(F[k - 1], transaction_lines[k])
                 ELSE F[k - 1]
    IN  F[Len(transaction_lines)]

C21_Alone(dim, id) ==
    LET r == CalculateAllBalances(C21_LinesOf(dim, id), start_period_number, end_period_number)
    IN  IF dim = "gl" THEN r.gl ELSE r.acc

C21_SameAt(d, e, id) ==
    /\ (id \in DOMAIN d) = (id \in DOMAIN e)
    /\ id \in DOMAIN d => d[id] = e[id]

C21_OthersUnchanged(dim) ==
    \A id \in LineIds(dim) \ {DimId(VisitedLine, dim)} :
        /\ C21_SameAt(OpeningDebits(sums', dim), OpeningDebits(sums, dim), id)
        /\ C21_SameAt(OpeningCredits(sums', dim), OpeningCredits(sums, dim), id)
        /\ C21_SameAt(ClosingDebits(sums', dim), ClosingDebits(sums, dim), id)
        /\ C21_SameAt(ClosingCredits(sums', dim), ClosingCredits(sums, dim), id)

C21_RecordsOfOwnLines ==
    pc = "done" =>
        \A dim \in Dims : \A id \in LineIds(dim) :
            Truthy(id) => C21_SameAt(Result(dim), C21_Alone(dim, id), id)

C21_AccountsIndependent ==
    /\ [][VisitsLine => \A dim \in Dims : C21_OthersUnchanged(dim)]_vars
    /\ []C21_RecordsOfOwnLines

C21_Witness ==
    /\ pc = "done"
    /\ Len(transaction_lines) = 3
    /\ transaction_lines[1].gl = "GL001" /\ transaction_lines[1].acc = "ACC001"
    /\ transaction_lines[2].gl = "GL002" /\ transaction_lines[2].acc = "ACC002"
    /\ transaction_lines[3].gl = "GL001" /\ transaction_lines[3].acc = "ACC002"
    /\ gl_balances["GL001"].closing_debit_balance = 2
    /\ gl_balances["GL002"].closing_credit_balance = 8
    /\ gl_balances["GL002"].opening_credit_balance = 8
    /\ account_balances["ACC001"].closing_debit_balance = 1
    /\ account_balances["ACC002"].closing_credit_balance = 7

---------------------------------------------------------------------------
(* C22: every GL account named by at least one line that has a period key  *)
(* has an entry in the returned GL map, also when all its balances are     *)
(* zero.                                                                   *)
C22_ZeroBalanceKept ==
    pc = "done" =>
        \A k \in 1..Len(transaction_lines) :
            (HasKey(transaction_lines[k]) /\ Truthy(transaction_lines[k].gl))
                => transaction_lines[k].gl \in DOMAIN gl_balances

---------------------------------------------------------------------------
(* C23: the diagnostics account for every line: visiting a line that adds  *)
(* to no accumulator raises exactly one of the three skip counters by one, *)
(* visiting a line that adds to an accumulator raises none of them, and at *)
(* the end of the pass processed plus skipped is the number of lines.      *)
C23_Skipped(s) == s.skipped_no_period + s.skipped_no_gl_account + s.skipped_no_account
C23_Processed(s) == s.processed_opening + s.processed_closing

C23_Contributes == \E dim \in Dims : ~C20_DimUnchanged(dim)

C23_DiagnosticsComplete ==
    /\ [][(pc = "loop" /\ i' = i + 1 /\ ~sums'.raised)
           => C23_Skipped(sums') = C23_Skipped(sums) + (IF C23_Contributes THEN 0 ELSE 1)]_vars
    /\ [](pc = "done" /\ transaction_lines # <<>>
              => C23_Processed(sums) + C23_Skipped(sums) = Len(transaction_lines))

---------------------------------------------------------------------------
(* C24: n lines of one positive amount v for one account in one period of  *)
(* the closing window accumulate to a closing debit balance of exactly     *)
(* n * v.                                                                  *)
C24_ExactAccumulation ==
    (pc = "done" /\ transaction_lines # <<>>) =>
        /\ "GL001" \in DOMAIN gl_balances
        /\ gl_balances["GL001"].closing_debit_balance
              = Len(transaction_lines) * transaction_lines[1].home_value.v

---------------------------------------------------------------------------
(* C25: for every account of the result, opening debit minus opening       *)
(* credit equals the sum of the net values of that account's lines with    *)
(* periodKey < startKey, whatever the sign of the closing net.             *)
C25_ExactOpeningNet(dim, id) ==
    LET F[k \in 0..Len(transaction_lines)] ==
            IF k = 0 THEN 0
            ELSE IF /\ DimId(transaction_lines[k], dim) = id
                    /\ HasKey(transaction_lines[k])
                    /\ StrLess(KeyOf(transaction_lines[k]), start_period_number)
                 THEN F[k - 1] + GetNetValue(transaction_lines[k])
                 ELSE F[k - 1]
    IN  F[Len(transaction_lines)]

C25_OpeningIsNetBefore ==
    pc = "done" =>
        \A dim \in Dims : \A id \in DOMAIN Result(dim) :
            Result(dim)[id].opening_debit_balance - Result(dim)[id].opening_credit_balance
                = C25_ExactOpeningNet(dim, id)

---------------------------------------------------------------------------
(* C26: once the window is cached, no step changes the cached value other  *)
(* than the reset to None, also when the configured dates have changed;    *)
(* every pass that starts with a cached window takes its start and end     *)
(* keys from it; and the keys stay the same for all lines of a pass.       *)
C26_Cached == period_info_cache # <<>>

C26_WindowMemoized ==
    /\ [][C26_Cached => period_info_cache' \in {period_info_cache, <<>>}]_vars
    /\ [][(C26_Cached /\ pc = "calculate" /\ pc' = "loop")
            => /\ start_period_number' = StartPeriodNumber(period_info_cache[1])
               /\ end_period_number' = EndPeriodNumber(period_info_cache[1])]_vars
    /\ [][(pc = "loop" /\ pc' = "loop")
            => /\ start_period_number' = start_period_number
               /\ end_period_number' = end_period_number
               /\ sums'.is_opening = StrLess(KeyOf(VisitedLine), start_period_number)
               /\ sums'.is_closing = StrLessEq(KeyOf(VisitedLine), end_period_number)]_vars

C26_Witness ==
    /\ pc = "loop"
    /\ i = 2
    /\ C26_Cached
    /\ period_info_cache[1] # PeriodInfo(config)
    /\ start_period_number = StartPeriodNumber(period_info_cache[1])
    /\ start_period_number # StartPeriodNumber(PeriodInfo(config))
    /\ sums.is_opening
    /\ ~IsOpening(sums.period_number, StartPeriodNumber(PeriodInfo(config)))

---------------------------------------------------------------------------
(* C27: for every line collection and window, _calculate_all_balances and  *)
(* _calculate_balances agree: the GL map is the result of the pass grouped *)
(* by c2g__GeneralLedgerAccount__c and the partner map the result of the   *)
(* pass grouped by c2g__Account__c, and one raises only if the other does. *)
C27_ByGl ==
    CalculateBalances(transaction_lines, "c2g__GeneralLedgerAccount__c",
                      start_period_number, end_period_number)

C27_ByAccount ==
    CalculateBalances(transaction_lines, "c2g__Account__c",
                      start_period_number, end_period_number)

C27_SinglePassEquivalent ==
    /\ (pc = "done" /\ transaction_lines # <<>>) =>
            /\ ~C27_ByGl.raised /\ C27_ByGl.balances = gl_balances
            /\ ~C27_ByAccount.raised /\ C27_ByAccount.balances = account_balances
    /\ pc = "error" => (C27_ByGl.raised /\ C27_ByAccount.raised)

---------------------------------------------------------------------------
(* C28: for every balance record of the conversion, _add_balance writes    *)
(* one opening and one closing element, both on the credit side if the     *)
(* record's closing credit balance is positive and both on the debit side  *)
(* otherwise, and every nonzero amount of the record is the amount of the  *)
(* element written for it.                                                 *)
C28_Fields ==
    [opening_debit_balance  |-> "OpeningDebitBalance",
     opening_credit_balance |-> "OpeningCreditBalance",
     closing_debit_balance  |-> "ClosingDebitBalance",
     closing_credit_balance |-> "ClosingCreditBalance"]

C28_Amount(text) ==
    LET k == CHOOSE j \in 1..Len(text) : text[j] = Dot
    IN  100 * C10_ToInt(SubSeq(text, 1, k - 1)) + 10 * text[k + 1] + text[k + 2]

C28_Names(elements) == [k \in 1..Len(elements) |-> elements[k].name]

C28_SerializedKeepsAmounts ==
    pc = "serialized" =>
        \A id \in DOMAIN gl_balances :
            LET rec == gl_balances[id]
            IN  /\ C28_Names(xml[id])
                      = IF rec.closing_credit_balance > 0
                        THEN <<"OpeningCreditBalance", "ClosingCreditBalance">>
                        ELSE <<"OpeningDebitBalance", "ClosingDebitBalance">>
                /\ \A f \in DOMAIN C28_Fields :
                      rec[f] # 0 =>
                          \E k \in 1..Len(xml[id]) :
                              /\ xml[id][k].name = C28_Fields[f]
                              /\ C28_Amount(xml[id][k].text) = rec[f]

---------------------------------------------------------------------------
(* C29: every transaction line of a journal entry is written with exactly  *)
(* one of the elements DebitAmount and CreditAmount, whatever its pair     *)
(* (debit_amount, credit_amount).                                          *)
C29_AmountElements(elements) ==
    {k \in 1..Len(elements) : elements[k].name \in {"DebitAmount", "CreditAmount"}}

C29_ExactlyOneAmount ==
    pc = "generated" =>
        \A entry \in {general_ledger_entries[k] : k \in 1..Len(general_ledger_entries)} :
            \A record_id \in 1..Len(entry.lines) :
                /\ record_id \in DOMAIN xml
                /\ Cardinality(C29_AmountElements(xml[record_id])) = 1

---------------------------------------------------------------------------
(* C30: whenever a poll returns JobComplete, query_bulk eventually returns *)
(* the downloaded results; TimeoutError is raised only when no poll made   *)
(* within max_wait returned JobComplete; after a poll that returned Failed *)
(* or Aborted the method has raised and no results are downloaded; and the *)
(* polling always ends, the waiting time staying bounded.                  *)
C30_Ended == pc \in {"returned", "raised"}

C30_BulkPolling ==
    /\ (bulk.state = "JobComplete") ~> (pc = "returned" /\ bulk.all_records # None)
    /\ [](bulk.raised = "TimeoutError"
            => ~(bulk.state = "JobComplete" /\ bulk.wait_time <= max_wait))
    /\ [](bulk.state \in {"Failed", "Aborted"}
            => (pc = "raised" /\ bulk.raised = "Exception" /\ bulk.all_records = None))
    /\ <>C30_Ended
    /\ [](bulk.wait_time < max_wait + 10)

====
